---- MODULE Spec2Model ----
(***************************************************************************)
(* Playback orchestration of the Chill music client (public/script.js) and *)
(* the two server routes whose answers decide its branches (/api/playlist, *)
(* /api/play).  The client is single threaded: every action below is one   *)
(* task of the event loop (a listener, a timer callback or the resumption  *)
(* of an async function after its awaits), run to completion together with *)
(* the promise reactions it makes runnable.                                *)
(***************************************************************************)
EXTENDS Integers, Sequences, FiniteSets, TLC

\* ------------------------------------------------------------------ bounds
MaxItems == 2          \* catalogue size: ids 1..MaxItems; longest playlist
MaxUserActions == 2    \* result clicks + next clicks the user makes
MaxWrapLen == 4        \* longest playlist of the wraparound specification

\* ------------------------------------------------------------------ values
Null == [null |-> TRUE]

\* The videos a search lists and a playlist of the main specification holds.
Items == 1..MaxItems

\* Every video id of either specification.
VideoIds == 1..(IF MaxItems > MaxWrapLen THEN MaxItems ELSE MaxWrapLen)

Text(k) == [kind |-> k, id |-> 0]
SearchTitle(id) == [kind |-> "title", id |-> id]
ApiTitle(id) == [kind |-> "apiTitle", id |-> id]
AudioUrl(id) == [url |-> id]

\* resultsContainer with nothing in it (script.js:57 and 85).
NoResults == [items |-> <<>>, message |-> Text("")]

Min(a, b) == IF a < b THEN a ELSE b

VARIABLES
    currentPlaylist,     \* script.js:16   Null or [title, videos, currentIndex]
    isTTSPlaying,        \* script.js:17
    nextAudioInfo,       \* script.js:18   Null or [audioUrl, title]
    audioPlayer,         \* <audio id=audioPlayer>: [src, st]
    ttsPlayer,           \* <audio id=ttsPlayer>:   [src, st]
    audioAbortQueued,    \* a queued "reject pending play promises" task of audioPlayer.pause()
    hidden,              \* the elements carrying class "hidden"
    nextButtonDisabled,  \* nextButton.disabled
    currentTrackText,    \* currentTrackElement.textContent
    playlistInfoText,    \* playlistInfoElement.textContent: [pos, total]
    playFetches,         \* outstanding fetch(/api/play?id=..): id -> count
    playlistFetches,     \* outstanding fetch(/api/playlist?id=..)
    timers,              \* pending setTimeout(playNextTrackInPlaylist, 1500)
    results,             \* resultsContainer: [items, message]
    searchFetches,       \* outstanding fetch(/api/search?q=..)
    searchButtonDisabled,\* searchButton.disabled
    userActions,         \* ghost: user gestures made so far
    lastSelected,        \* ghost: the latest selection [type, id]
    failStreak,          \* ghost: Primary errors since the last successful start
    wrapStart,           \* ghost: index at which counting of advances began
    wrapCount,           \* ghost: advances since then, modulo the playlist length
    staleTimers          \* ghost: pending timers armed before the latest selection

vars == <<currentPlaylist, isTTSPlaying, nextAudioInfo, audioPlayer, ttsPlayer,
          audioAbortQueued, hidden, nextButtonDisabled, currentTrackText,
          playlistInfoText, playFetches, playlistFetches, timers, userActions,
          lastSelected, failStreak, wrapStart, wrapCount, results,
          searchFetches, searchButtonDisabled, staleTimers>>

\* The whole state as one record, so that a handler is a function on it.
\* mt: the promise reactions made runnable by the task under way.
S ==
    [currentPlaylist |-> currentPlaylist, isTTSPlaying |-> isTTSPlaying,
     nextAudioInfo |-> nextAudioInfo, audioPlayer |-> audioPlayer,
     ttsPlayer |-> ttsPlayer, audioAbortQueued |-> audioAbortQueued,
     hidden |-> hidden, nextButtonDisabled |-> nextButtonDisabled,
     currentTrackText |-> currentTrackText, playlistInfoText |-> playlistInfoText,
     playFetches |-> playFetches, playlistFetches |-> playlistFetches,
     timers |-> timers, userActions |-> userActions, lastSelected |-> lastSelected,
     failStreak |-> failStreak, wrapStart |-> wrapStart, wrapCount |-> wrapCount,
     results |-> results, searchFetches |-> searchFetches,
     searchButtonDisabled |-> searchButtonDisabled, staleTimers |-> staleTimers,
     mt |-> <<>>]

Commit(s) ==
    /\ currentPlaylist' = s.currentPlaylist
    /\ isTTSPlaying' = s.isTTSPlaying
    /\ nextAudioInfo' = s.nextAudioInfo
    /\ audioPlayer' = s.audioPlayer
    /\ ttsPlayer' = s.ttsPlayer
    /\ audioAbortQueued' = s.audioAbortQueued
    /\ hidden' = s.hidden
    /\ nextButtonDisabled' = s.nextButtonDisabled
    /\ currentTrackText' = s.currentTrackText
    /\ playlistInfoText' = s.playlistInfoText
    /\ playFetches' = s.playFetches
    /\ playlistFetches' = s.playlistFetches
    /\ timers' = s.timers
    /\ userActions' = s.userActions
    /\ lastSelected' = s.lastSelected
    /\ failStreak' = s.failStreak
    /\ wrapStart' = s.wrapStart
    /\ wrapCount' = s.wrapCount
    /\ results' = s.results
    /\ searchFetches' = s.searchFetches
    /\ searchButtonDisabled' = s.searchButtonDisabled
    /\ staleTimers' = s.staleTimers

\* ------------------------------------------------------------ UI utilities
showElement(s, el) == [s EXCEPT !.hidden = @ \ {el}]
hideElement(s, el) == [s EXCEPT !.hidden = @ \cup {el}]
enableButton(s) == [s EXCEPT !.nextButtonDisabled = FALSE]
disableButton(s) == [s EXCEPT !.nextButtonDisabled = TRUE]

showLoading(s) == showElement(hideElement(s, "error"), "loading")
hideLoading(s) == hideElement(s, "loading")

\* Mutant: the error is shown without hiding the loading indicator.
showErrorKeepsLoading(s) == showElement(s, "error")

showError(s) == showElement(hideLoading(s), "error")
hideError(s) == hideElement(s, "error")

updatePlaylistUI(s) ==
    IF s.currentPlaylist # Null
    THEN showElement(
            [s EXCEPT !.playlistInfoText =
                [pos |-> s.currentPlaylist.currentIndex + 1,
                 total |-> Len(s.currentPlaylist.videos)]],
            "playlistInfo")
    ELSE hideElement(s, "playlistInfo")

\* ------------------------------------------------- HTMLMediaElement model
\* st: "stopped" (never started, paused, ended or failed), "starting" (play()
\* called, its promise pending while the resource loads), "playing".
\* Assigning src runs the load algorithm: playback stops and a pending play
\* promise is rejected at once (AbortError); its reaction runs when the task
\* under way returns.  pause() queues that rejection as a task of its own.
audioPause(s) ==
    IF s.audioPlayer.st = "starting"
    THEN [s EXCEPT !.audioPlayer.st = "stopped", !.audioAbortQueued = TRUE]
    ELSE [s EXCEPT !.audioPlayer.st = "stopped"]

audioLoad(s, url) ==
    [s EXCEPT !.audioPlayer = [src |-> url, st |-> "stopped"],
              !.audioAbortQueued = FALSE,
              !.mt = IF s.audioPlayer.st = "starting" \/ s.audioAbortQueued
                     THEN Append(@, "audio") ELSE @]

audioPlay(s) == [s EXCEPT !.audioPlayer.st = "starting"]

ttsLoad(s, text) ==
    [s EXCEPT !.ttsPlayer = [src |-> text, st |-> "stopped"],
              !.mt = IF s.ttsPlayer.st = "starting" THEN Append(@, "tts") ELSE @]

ttsPlay(s) == [s EXCEPT !.ttsPlayer.st = "starting"]

\* --------------------------------------------------------- playMainAudio
\* The .catch reaction of audioPlayer.play() (script.js:303-315).
audioPlayCatch(s, errorName) ==
    hideLoading(IF errorName = "NotAllowedError"
                THEN showElement(showError(s), "player")
                ELSE showError(s))

\* The .then reaction (script.js:297-302).  Its first statement reads
\* nextAudioInfo.title: when the slot is empty by then, that read throws and
\* the chained .catch runs with a TypeError instead of the rest of the body.
audioPlayThen(s) ==
    IF s.nextAudioInfo = Null
    THEN audioPlayCatch(s, "TypeError")
    ELSE hideError(hideLoading(showElement(s, "player")))

\* Mutant: the staged track is not cleared after it is handed over.
playMainAudioKeepsStaged(s) ==
    IF s.nextAudioInfo = Null
    THEN IF s.currentPlaylist = Null THEN hideElement(s, "player") ELSE s
    ELSE LET s1 == [s EXCEPT !.currentTrackText = s.nextAudioInfo.title]
         IN  audioPlay(audioLoad(s1, s.nextAudioInfo.audioUrl))

playMainAudio(s) ==
    IF s.nextAudioInfo = Null
    THEN IF s.currentPlaylist = Null THEN hideElement(s, "player") ELSE s
    ELSE LET s1 == [s EXCEPT !.currentTrackText = s.nextAudioInfo.title]
             s2 == audioPlay(audioLoad(s1, s.nextAudioInfo.audioUrl))
         IN  [s2 EXCEPT !.nextAudioInfo = Null]

\* ---------------------------------------------------------------- playTTS
\* The .catch reaction of ttsPlayer.play() (script.js:269-274).
ttsPlayCatch(s) == playMainAudio([s EXCEPT !.isTTSPlaying = FALSE])

Announcement(title) == [say |-> title]

playTTS(s, text) ==
    IF text = Null
    THEN IF s.nextAudioInfo # Null THEN playMainAudio(s) ELSE s
    ELSE ttsPlay(ttsLoad(audioPause([s EXCEPT !.isTTSPlaying = TRUE]), text))

\* The promise reactions made runnable by a task run when it returns, in order.
RECURSIVE RunMicrotasks(_)
RunMicrotasks(s) ==
    IF s.mt = <<>> THEN s
    ELSE LET rest == [s EXCEPT !.mt = Tail(@)]
         IN  RunMicrotasks(IF Head(s.mt) = "tts"
                           THEN ttsPlayCatch(rest)
                           ELSE audioPlayCatch(rest, "AbortError"))

\* ---------------------------------------------------- fetchAndPrepareVideo
\* Up to the first await: the request leaves (script.js:213).
fetchAndPrepareVideo(s, videoId) ==
    [s EXCEPT !.playFetches[videoId] = @ + 1]

\* GET /api/play: 200 with {audioUrl, title}, or an error status.  The title
\* is info.videoDetails.title; in this catalogue video 1 carries none, so both
\* arms of the client's fallback are taken.
VideoDetailsTitle(videoId) == IF videoId = 1 THEN Null ELSE ApiTitle(videoId)

PlayResponses(videoId) ==
    { [ok |-> FALSE],
      [ok |-> TRUE, audioUrl |-> AudioUrl(videoId),
       title |-> VideoDetailsTitle(videoId)] }

\* data.title || title (script.js:223)
StagedTitle(data, title) == IF data.title # Null THEN data.title ELSE title

\* Mutant: the catch block leaves the staged track in place.
fetchAndPrepareVideoCatchKeepsStaged(s) ==
    LET s1 == showError(s)
    IN  IF s1.currentPlaylist = Null THEN hideElement(s1, "player") ELSE s1

\* The catch block (script.js:238-243).
fetchAndPrepareVideoCatch(s) ==
    LET s1 == [showError(s) EXCEPT !.nextAudioInfo = Null]
    IN  IF s1.currentPlaylist = Null THEN hideElement(s1, "player") ELSE s1

\* After the awaits (script.js:216-247), title being the caller's argument.
fetchAndPrepareVideoResume(s, data, title) ==
    IF ~data.ok
    THEN hideLoading(fetchAndPrepareVideoCatch(s))
    ELSE LET s1 == [s EXCEPT !.nextAudioInfo =
                        [audioUrl |-> data.audioUrl,
                         title |-> StagedTitle(data, title)]]
             s2 == IF s1.currentPlaylist # Null
                   THEN updatePlaylistUI(s1)
                   ELSE showElement(
                          [s1 EXCEPT !.currentTrackText = s1.nextAudioInfo.title],
                          "player")
         IN  hideLoading(playTTS(s2, Announcement(s2.nextAudioInfo.title)))

\* ------------------------------------------------------ GET /api/playlist
\* What YouTube.getPlaylist hands the route: Null (nothing found, or a throw),
\* or n entries, entry k being video k, complete or lacking its id and title.
RawVideo(k, complete) ==
    IF complete THEN [id |-> k, title |-> SearchTitle(k)]
    ELSE [id |-> 0, title |-> Null]

RawPlaylists ==
    {Null} \cup
    UNION { { [videos |-> [k \in 1..n |-> RawVideo(k, c[k])]] :
                c \in [1..n -> BOOLEAN] } : n \in 0..MaxItems }

VideoComplete(v) == v.id # 0 /\ v.title # Null

PlaylistEndpoint(playlist) ==
    IF playlist = Null \/ Len(playlist.videos) = 0
    THEN [ok |-> FALSE]
    ELSE [ok |-> TRUE, title |-> Text("Playlist"),
          videos |-> SelectSeq(playlist.videos, VideoComplete)]

\* ----------------------------------------------------------- fetchPlaylist
\* Up to the first await: the request leaves (script.js:167).
fetchPlaylist(s) == [s EXCEPT !.playlistFetches = @ + 1]

\* Mutant: the cursor starts at 1, as if positions were 1-based.
NewPlaylistStateOneBased(data) ==
    [title |-> data.title, videos |-> data.videos, currentIndex |-> 1]

NewPlaylistState(data) ==
    [title |-> data.title, videos |-> data.videos, currentIndex |-> 0]

\* Mutant: the catch block reports the error and keeps the playlist state.
fetchPlaylistCatchKeepsState(s) == showError(s)

\* The catch block (script.js:192-199).
fetchPlaylistCatch(s) ==
    disableButton(hideElement(hideElement(
        [showError(s) EXCEPT !.currentPlaylist = Null],
        "playlistInfo"), "nextButton"))

\* After the awaits (script.js:170-199).
fetchPlaylistResume(s, data) ==
    IF data.ok /\ Len(data.videos) > 0
    THEN LET s1 == [s EXCEPT !.currentPlaylist = NewPlaylistState(data),
                             !.failStreak = 0, !.wrapStart = 0, !.wrapCount = 0]
             s2 == enableButton(showElement(updatePlaylistUI(s1), "nextButton"))
             firstVideo == s2.currentPlaylist.videos[1]
         IN  fetchAndPrepareVideo(s2, firstVideo.id)
    ELSE fetchPlaylistCatch(s)

\* ------------------------------------------------- playNextTrackInPlaylist
\* Mutant: the loop back to 0 is missing.
AdvanceIndexNoWrap(pl) == pl.currentIndex + 1

\* Mutant: the loop back compares with > instead of >=.
AdvanceIndexLateWrap(pl) ==
    IF pl.currentIndex + 1 > Len(pl.videos) THEN 0 ELSE pl.currentIndex + 1

\* script.js:330-333
AdvanceIndex(pl) ==
    IF pl.currentIndex + 1 >= Len(pl.videos) THEN 0 ELSE pl.currentIndex + 1

\* nextVideo && nextVideo.id (script.js:338-340)
HasNextVideo(pl) ==
    /\ pl.currentIndex + 1 \in DOMAIN pl.videos
    /\ pl.videos[pl.currentIndex + 1].id # 0

\* Mutant: the handler silences the Primary channel before its guard.
playNextTrackInPlaylistSilencesFirst(s) ==
    LET s0 == audioPause(s)
    IN  IF s0.currentPlaylist = Null THEN s0
        ELSE IF Len(s0.currentPlaylist.videos) = 0 THEN s0
        ELSE LET s1 == disableButton(s0)
                 s2 == [s1 EXCEPT !.currentPlaylist.currentIndex =
                                        AdvanceIndex(s0.currentPlaylist),
                                  !.wrapCount =
                                        (@ + 1) % Len(s0.currentPlaylist.videos)]
                 pl == s2.currentPlaylist
                 s3 == IF HasNextVideo(pl)
                       THEN updatePlaylistUI(fetchAndPrepareVideo(
                                showLoading(s2), pl.videos[pl.currentIndex + 1].id))
                       ELSE hideElement(hideElement(
                                [showError(s2) EXCEPT !.currentPlaylist = Null],
                                "playlistInfo"), "nextButton")
             IN  enableButton(s3)

playNextTrackInPlaylist(s) ==
    IF s.currentPlaylist = Null THEN s
    ELSE IF Len(s.currentPlaylist.videos) = 0 THEN s
    ELSE LET s1 == disableButton(s)
             s2 == [s1 EXCEPT !.currentPlaylist.currentIndex =
                                    AdvanceIndex(s.currentPlaylist),
                              !.wrapCount =
                                    (@ + 1) % Len(s.currentPlaylist.videos)]
             pl == s2.currentPlaylist
             s3 == IF HasNextVideo(pl)
                   THEN updatePlaylistUI(fetchAndPrepareVideo(
                            showLoading(s2), pl.videos[pl.currentIndex + 1].id))
                   ELSE hideElement(hideElement(
                            [showError(s2) EXCEPT !.currentPlaylist = Null],
                            "playlistInfo"), "nextButton")
         IN  enableButton(s3)

\* ------------------------------------------------------------ performSearch
\* What YouTube.search hands the route: Null (a throw), or n entries, entry k
\* being video k; the first entry may lack its id and title.
RawSearches ==
    {Null} \cup
    { [videos |-> [k \in 1..n |-> RawVideo(k, c \/ k # 1)]] :
        n \in 0..MaxItems, c \in BOOLEAN }

\* GET /api/search (part_000:25-60): 500 on a throw, else the complete entries.
SearchEndpoint(raw) ==
    IF raw = Null THEN [ok |-> FALSE]
    ELSE [ok |-> TRUE, results |-> SelectSeq(raw.videos, VideoComplete)]

\* Mutant: a rendered result is tagged as a playlist.
RenderResultAsPlaylist(item) ==
    [id |-> item.id, title |-> item.title, type |-> "playlist"]

\* The dataset of one rendered result (script.js:95-100).
RenderResult(item) ==
    [id |-> item.id, title |-> item.title, type |-> "video"]

\* script.js:84-127
displayResults(s, data) ==
    IF Len(data) = 0
    THEN [s EXCEPT !.results = [items |-> <<>>,
                                message |-> Text("No results found.")]]
    ELSE LET complete == SelectSeq(data, VideoComplete)
         IN  [s EXCEPT !.results =
                 [items |-> [i \in 1..Len(complete) |-> RenderResult(complete[i])],
                  message |-> Text("")]]

\* Up to the first await (script.js:47-60); query is the trimmed input.
performSearch(s, query) ==
    IF query = ""
    THEN showError(s)
    ELSE [hideError(showLoading(s)) EXCEPT !.searchButtonDisabled = TRUE,
                                           !.results = NoResults,
                                           !.searchFetches = @ + 1]

\* After the awaits (script.js:61-77), the finally block included.
performSearchResume(s, response) ==
    LET s1 == IF response.ok
              THEN displayResults(s, response.results)
              ELSE [showError(s) EXCEPT !.results =
                       [items |-> <<>>, message |-> Text("Search failed.")]]
    IN  [hideLoading(s1) EXCEPT !.searchButtonDisabled = FALSE]

\* -------------------------------------------------------------- listeners
\* script.js:133-159
handleResultClick(s, id, type) ==
    LET s1 == disableButton(hideElement(hideElement(
                  [s EXCEPT !.currentPlaylist = Null], "playlistInfo"),
                  "nextButton"))
        s2 == hideError(showLoading(s1))
        s3 == [s2 EXCEPT !.currentTrackText = Text("Loading..."),
                         !.audioPlayer.src = Null]
    IN  IF type = "playlist" THEN fetchPlaylist(s3)
        ELSE fetchAndPrepareVideo(s3, id)

\* Mutant: the listener advances the playlist and never reports the end.
audioEndedListenerNoFinish(s) == playNextTrackInPlaylist(s)

\* Mutant: the listener reports the end and never advances the playlist.
audioEndedListenerNeverAdvances(s) ==
    [s EXCEPT !.currentTrackText = Text("Finished")]

\* script.js:389-398
audioEndedListener(s) ==
    IF s.currentPlaylist # Null THEN playNextTrackInPlaylist(s)
    ELSE [s EXCEPT !.currentTrackText = Text("Finished")]

\* Mutant: the listener arms the retry timer whether or not a playlist is active.
audioErrorListenerAlwaysRetries(s) == [showError(s) EXCEPT !.timers = @ + 1]

\* Mutant: the listener advances at once instead of arming the timer.
audioErrorListenerNoDelay(s) ==
    LET s1 == showError(s)
    IN  IF s1.currentPlaylist # Null
        THEN playNextTrackInPlaylist(s1)
        ELSE hideElement(s1, "player")

\* script.js:400-421
audioErrorListener(s) ==
    LET s1 == showError(s)
    IN  IF s1.currentPlaylist # Null
        THEN [s1 EXCEPT !.timers = @ + 1]
        ELSE hideElement(s1, "player")

\* script.js:424-429
ttsEndedListener(s) == playMainAudio([s EXCEPT !.isTTSPlaying = FALSE])

\* Mutant: the listener reports the failure and leaves the staged track unplayed.
ttsErrorListenerBlocks(s) == showError([s EXCEPT !.isTTSPlaying = FALSE])

\* script.js:431-437
ttsErrorListener(s) ==
    playMainAudio(showError([s EXCEPT !.isTTSPlaying = FALSE]))

\* ------------------------------------------------------------------- Init
\* script.js:16-18 and the initial page load, script.js:446-451.
Init ==
    /\ currentPlaylist = Null
    /\ isTTSPlaying = FALSE
    /\ nextAudioInfo = Null
    /\ audioPlayer = [src |-> Null, st |-> "stopped"]
    /\ ttsPlayer = [src |-> Null, st |-> "stopped"]
    /\ audioAbortQueued = FALSE
    /\ hidden = {"player", "loading", "error", "nextButton", "playlistInfo"}
    /\ nextButtonDisabled = TRUE
    /\ currentTrackText = Text("")
    /\ playlistInfoText = [pos |-> 0, total |-> 0]
    /\ playFetches = [id \in VideoIds |-> 0]
    /\ playlistFetches = 0
    /\ timers = 0
    /\ userActions = 0
    /\ lastSelected = [type |-> "none", id |-> 0]
    /\ failStreak = 0
    /\ wrapStart = 0
    /\ wrapCount = 0
    /\ results = NoResults
    /\ searchFetches = 0
    /\ searchButtonDisabled = FALSE
    /\ staleTimers = 0

\* ---------------------------------------------------------------- actions
\* One task each; Task(s) commits the state the task and its reactions leave.
Task(s) == Commit(RunMicrotasks(s))

\* The user activates a result (script.js:380-385).
ResultClick(id, type) ==
    /\ userActions < MaxUserActions
    /\ Task([handleResultClick(S, id, type) EXCEPT
                !.userActions = @ + 1,
                !.lastSelected = [type |-> type, id |-> id],
                !.staleTimers = timers])

SelectVideo == \E id \in Items : ResultClick(id, "video")

\* The user activates one of the results displayResults rendered: id and type
\* are read from its dataset (script.js:134-138).
ResultClickRendered ==
    \E i \in DOMAIN results.items :
        ResultClick(results.items[i].id, results.items[i].type)

Queries == {"", "lofi"}

\* The user clicks the search button or presses Enter in the input
\* (script.js:372-377); Enter works while the button is disabled.
PerformSearch ==
    /\ userActions < MaxUserActions
    /\ \E query \in Queries :
          Task([performSearch(S, query) EXCEPT !.userActions = @ + 1])

\* A /api/search response arrives.
SearchResponse ==
    /\ searchFetches > 0
    /\ \E raw \in RawSearches :
          Task(performSearchResume([S EXCEPT !.searchFetches = @ - 1],
                                   SearchEndpoint(raw)))

SelectPlaylist == ResultClick(0, "playlist")

\* The user clicks the next button (script.js:441); a disabled or hidden
\* button receives no click.
NextClick ==
    /\ userActions < MaxUserActions
    /\ ~nextButtonDisabled
    /\ "nextButton" \notin hidden
    /\ Task([playNextTrackInPlaylist(S) EXCEPT !.userActions = @ + 1])

\* A /api/playlist response arrives, the route having been handed playlist.
PlaylistResponseFor(playlist) ==
    /\ playlistFetches > 0
    /\ Task(fetchPlaylistResume([S EXCEPT !.playlistFetches = @ - 1],
                                PlaylistEndpoint(playlist)))

PlaylistResponse == \E playlist \in RawPlaylists : PlaylistResponseFor(playlist)

\* A /api/play response arrives, in any order among the outstanding ones.
PlayResponse(videoId, data) ==
    /\ playFetches[videoId] > 0
    /\ Task(fetchAndPrepareVideoResume(
                [S EXCEPT !.playFetches[videoId] = @ - 1],
                data, SearchTitle(videoId)))

PlayResponseOk ==
    \E videoId \in VideoIds : \E data \in PlayResponses(videoId) :
        data.ok /\ PlayResponse(videoId, data)

PlayResponseFail ==
    \E videoId \in VideoIds : PlayResponse(videoId, [ok |-> FALSE])

\* The 1500 ms timer of the audioPlayer error listener fires (script.js:417).
RetryTimerFires ==
    /\ timers > 0
    /\ Task(playNextTrackInPlaylist(
                [S EXCEPT !.timers = @ - 1,
                          !.staleTimers = IF @ > 0 THEN @ - 1 ELSE 0]))

\* ttsPlayer: the announcement loads and starts; play() resolves (no reaction).
TtsStarted ==
    /\ ttsPlayer.st = "starting"
    /\ Task([S EXCEPT !.ttsPlayer.st = "playing"])

TtsEnded ==
    /\ ttsPlayer.st = "playing"
    /\ Task(ttsEndedListener([S EXCEPT !.ttsPlayer.st = "stopped"]))

\* The announcement cannot be loaded: `error` is fired and play() rejects.
TtsLoadFailed ==
    /\ ttsPlayer.st = "starting"
    /\ \E listenerFirst \in BOOLEAN :
          LET s0 == [S EXCEPT !.ttsPlayer.st = "stopped"]
          IN  Task(IF listenerFirst
                   THEN ttsPlayCatch(ttsErrorListener(s0))
                   ELSE ttsErrorListener(ttsPlayCatch(s0)))

\* play() rejects without an `error` event (NotAllowedError).
TtsPlayRejected ==
    /\ ttsPlayer.st = "starting"
    /\ Task(ttsPlayCatch([S EXCEPT !.ttsPlayer.st = "stopped"]))

\* `error` while the announcement is playing.
TtsError ==
    /\ ttsPlayer.st = "playing"
    /\ Task(ttsErrorListener([S EXCEPT !.ttsPlayer.st = "stopped"]))

\* audioPlayer: the track loads and starts; play() resolves.
AudioStarted ==
    /\ audioPlayer.st = "starting"
    /\ Task(audioPlayThen([S EXCEPT !.audioPlayer.st = "playing",
                                    !.failStreak = 0]))

AudioEnded ==
    /\ audioPlayer.st = "playing"
    /\ Task(audioEndedListener([S EXCEPT !.audioPlayer.st = "stopped"]))

FailCount(s) ==
    IF s.currentPlaylist # Null
    THEN Min(s.failStreak + 1, Len(s.currentPlaylist.videos))
    ELSE s.failStreak

\* The track cannot be loaded: `error` is fired and play() rejects.
AudioLoadFailed ==
    /\ audioPlayer.st = "starting"
    /\ Task(audioPlayCatch(
              audioErrorListener([S EXCEPT !.audioPlayer.st = "stopped",
                                           !.failStreak = FailCount(S)]),
              "NotSupportedError"))

\* play() rejects without an `error` event (autoplay blocked).
AudioPlayRejected ==
    /\ audioPlayer.st = "starting"
    /\ Task(audioPlayCatch([S EXCEPT !.audioPlayer.st = "stopped"],
                           "NotAllowedError"))

\* `error` while the track is playing.
AudioError ==
    /\ audioPlayer.st = "playing"
    /\ Task(audioErrorListener([S EXCEPT !.audioPlayer.st = "stopped",
                                         !.failStreak = FailCount(S)]))

\* The rejection queued by audioPlayer.pause() is delivered.
AudioPlayAborted ==
    /\ audioAbortQueued
    /\ Task(audioPlayCatch([S EXCEPT !.audioAbortQueued = FALSE], "AbortError"))

Next ==
    \/ SelectVideo
    \/ SelectPlaylist
    \/ NextClick
    \/ PlaylistResponse
    \/ PlayResponseOk
    \/ PlayResponseFail
    \/ RetryTimerFires
    \/ TtsStarted
    \/ TtsEnded
    \/ TtsLoadFailed
    \/ TtsPlayRejected
    \/ TtsError
    \/ AudioStarted
    \/ AudioEnded
    \/ AudioLoadFailed
    \/ AudioPlayRejected
    \/ AudioError
    \/ AudioPlayAborted

Spec == Init /\ [][Next]_vars

TypeOK ==
    /\ currentPlaylist # Null => currentPlaylist.currentIndex \in Nat
    /\ audioPlayer.st \in {"stopped", "starting", "playing"}
    /\ ttsPlayer.st \in {"stopped", "starting", "playing"}
    /\ timers \in 0..(MaxUserActions + 1)
    /\ playlistFetches \in 0..MaxUserActions
    /\ \A id \in VideoIds : playFetches[id] \in 0..(MaxUserActions + 1)

\* ------------------------------------------- the wraparound specification
\* A playlist of n videos stands at index start with nothing under way: the
\* state after its load, a failed resolve of its first video and start next
\* clicks whose resolves failed as well.  No further selection is made.
InitWrap ==
    /\ \E n \in 1..MaxWrapLen : \E start \in 0..(n - 1) :
          /\ currentPlaylist =
                [title |-> Text("Playlist"),
                 videos |-> [k \in 1..n |-> RawVideo(k, TRUE)],
                 currentIndex |-> start]
          /\ playlistInfoText = [pos |-> start + 1, total |-> n]
          /\ wrapStart = start
    /\ isTTSPlaying = FALSE
    /\ nextAudioInfo = Null
    /\ audioPlayer = [src |-> Null, st |-> "stopped"]
    /\ ttsPlayer = [src |-> Null, st |-> "stopped"]
    /\ audioAbortQueued = FALSE
    /\ hidden = {"player", "loading"}
    /\ nextButtonDisabled = FALSE
    /\ currentTrackText = Text("Loading...")
    /\ playFetches = [id \in VideoIds |-> 0]
    /\ playlistFetches = 0
    /\ timers = 0
    /\ userActions = 0
    /\ lastSelected = [type |-> "playlist", id |-> 0]
    /\ failStreak = 0
    /\ wrapCount = 0
    /\ results = NoResults
    /\ searchFetches = 0
    /\ searchButtonDisabled = FALSE
    /\ staleTimers = 0

NextWrap ==
    \/ NextClick
    \/ PlayResponseOk
    \/ PlayResponseFail
    \/ RetryTimerFires
    \/ TtsStarted
    \/ TtsEnded
    \/ TtsLoadFailed
    \/ TtsPlayRejected
    \/ TtsError
    \/ AudioStarted
    \/ AudioEnded
    \/ AudioLoadFailed
    \/ AudioPlayRejected
    \/ AudioError
    \/ AudioPlayAborted

SpecWrap == InitWrap /\ [][NextWrap]_vars

\* ------------------------------------------------- the looping specification
\* A playlist of n videos stands at index start and the resolve call for the
\* item there is in flight (the state playNextTrackInPlaylist leaves).  From
\* then on every resolve succeeds, every playback starts and reaches its end,
\* and the user does nothing.
InitLoop ==
    /\ \E n \in 1..MaxWrapLen : \E start \in 0..(n - 1) :
          /\ currentPlaylist =
                [title |-> Text("Playlist"),
                 videos |-> [k \in 1..n |-> RawVideo(k, TRUE)],
                 currentIndex |-> start]
          /\ playlistInfoText = [pos |-> start + 1, total |-> n]
          /\ wrapStart = start
          /\ playFetches = [id \in VideoIds |-> IF id = start + 1 THEN 1 ELSE 0]
    /\ isTTSPlaying = FALSE
    /\ nextAudioInfo = Null
    /\ audioPlayer = [src |-> Null, st |-> "stopped"]
    /\ ttsPlayer = [src |-> Null, st |-> "stopped"]
    /\ audioAbortQueued = FALSE
    /\ hidden = {"player", "error"}
    /\ nextButtonDisabled = FALSE
    /\ currentTrackText = Text("Loading...")
    /\ playlistFetches = 0
    /\ timers = 0
    /\ userActions = 0
    /\ lastSelected = [type |-> "playlist", id |-> 0]
    /\ failStreak = 0
    /\ wrapCount = 0
    /\ results = NoResults
    /\ searchFetches = 0
    /\ searchButtonDisabled = FALSE
    /\ staleTimers = 0

NextLoop ==
    \/ PlayResponseOk
    \/ TtsStarted
    \/ TtsEnded
    \/ AudioStarted
    \/ AudioEnded

\* Every answer arrives and every playback starts and ends: whichever of the
\* five steps is enabled is eventually taken.
SpecLoop == InitLoop /\ [][NextLoop]_vars /\ WF_vars(NextLoop)

\* ---------------------------------------------- the search specification
\* Spec with searches: a search is one more user gesture, and a selection
\* still carries any id and type the click handler can read.
NextSearch ==
    \/ Next
    \/ PerformSearch
    \/ SearchResponse

SpecSearch == Init /\ [][NextSearch]_vars

\* ------------------------------------------ the user-interface specification
\* The page after a first search was answered and displayResults rendered
\* its results; nothing else has happened yet.
InitUI ==
    /\ \E raw \in RawSearches :
          /\ SearchEndpoint(raw).ok
          /\ results = displayResults([results |-> NoResults],
                                      SearchEndpoint(raw).results).results
    /\ currentPlaylist = Null
    /\ isTTSPlaying = FALSE
    /\ nextAudioInfo = Null
    /\ audioPlayer = [src |-> Null, st |-> "stopped"]
    /\ ttsPlayer = [src |-> Null, st |-> "stopped"]
    /\ audioAbortQueued = FALSE
    /\ hidden = {"player", "loading", "error", "nextButton", "playlistInfo"}
    /\ nextButtonDisabled = TRUE
    /\ currentTrackText = Text("")
    /\ playlistInfoText = [pos |-> 0, total |-> 0]
    /\ playFetches = [id \in VideoIds |-> 0]
    /\ playlistFetches = 0
    /\ timers = 0
    /\ userActions = 0
    /\ lastSelected = [type |-> "none", id |-> 0]
    /\ failStreak = 0
    /\ wrapStart = 0
    /\ wrapCount = 0
    /\ searchFetches = 0
    /\ searchButtonDisabled = FALSE
    /\ staleTimers = 0

\* The gestures the page offers (search, a click on a rendered result) and
\* the answers and channel events they lead to.  The next button, the
\* /api/playlist answer and the retry timer are left out: C28 states that
\* none of them is enabled in any state reached.
NextUI ==
    \/ PerformSearch
    \/ SearchResponse
    \/ ResultClickRendered
    \/ PlayResponseOk
    \/ PlayResponseFail
    \/ TtsStarted
    \/ TtsEnded
    \/ TtsLoadFailed
    \/ TtsPlayRejected
    \/ TtsError
    \/ AudioStarted
    \/ AudioEnded
    \/ AudioLoadFailed
    \/ AudioPlayRejected
    \/ AudioError
    \/ AudioPlayAborted

SpecUI == InitUI /\ [][NextUI]_vars


\* ================================================================= claims
NoPlayFetches == \A id \in VideoIds : playFetches[id] = 0

\* C1: stale-response discard.  Once item B is the latest selection, a track
\* that is staged or loaded into the Primary channel is B's resolution, never
\* that of an item selected before it, whatever the order of the responses.
C1_StaleResponseDiscarded ==
    lastSelected.type = "video" =>
        /\ nextAudioInfo # Null =>
              nextAudioInfo.audioUrl = AudioUrl(lastSelected.id)
        /\ audioPlayer.src # Null =>
              audioPlayer.src = AudioUrl(lastSelected.id)

TtsFails == TtsLoadFailed \/ TtsPlayRejected \/ TtsError

\* C2: the announcement is best-effort.  Whenever a track is staged and the
\* Announcement channel fails (its play() promise rejects, it emits `error`,
\* or both), the Primary channel is loaded with the staged track's stream
\* URL and started, and the staged slot is consumed.
C2_AnnouncementBestEffort ==
    [][(nextAudioInfo # Null /\ TtsFails) =>
          /\ audioPlayer'.src = nextAudioInfo.audioUrl
          /\ audioPlayer'.st = "starting"
          /\ nextAudioInfo' = Null]_vars

\* A single selection whose announcement failed (only the ttsPlayer error
\* listener shows the error element on this path) and whose track started.
C2_Witness ==
    /\ userActions = 1
    /\ lastSelected.type = "video"
    /\ ttsPlayer.src # Null
    /\ ttsPlayer.st = "stopped"
    /\ "error" \notin hidden
    /\ audioPlayer.src = AudioUrl(lastSelected.id)
    /\ audioPlayer.st = "starting"

ExhaustedPlaylist ==
    /\ currentPlaylist # Null
    /\ lastSelected.type = "playlist"
    /\ userActions = 1
    /\ failStreak >= Len(currentPlaylist.videos)

\* C3: bounded recovery.  With a playlist selected and no other user action,
\* once the Primary channel has failed for a whole cycle of the playlist
\* without one successful start, the retry timer issues no further resolve
\* call.
C3_BoundedRecovery ==
    [][(ExhaustedPlaylist /\ RetryTimerFires) => playFetches' = playFetches]_vars

\* C4: whenever currentPlaylist is present its videos list is non-empty and
\* 0 <= currentIndex < videos.length.
C4_PlaylistStateInvariant ==
    currentPlaylist # Null =>
        /\ Len(currentPlaylist.videos) > 0
        /\ 0 <= currentPlaylist.currentIndex
        /\ currentPlaylist.currentIndex < Len(currentPlaylist.videos)

\* A playlist of two or more videos that has advanced to its last index.
C4_Witness ==
    /\ currentPlaylist # Null
    /\ Len(currentPlaylist.videos) >= 2
    /\ currentPlaylist.currentIndex = Len(currentPlaylist.videos) - 1

\* The cursor after one advance of a playlist that stays in place, and the
\* resolve call that goes with it.
Advanced(pl) ==
    IF pl.currentIndex = Len(pl.videos) - 1 THEN 0 ELSE pl.currentIndex + 1

AdvancedAndResolving ==
    /\ currentPlaylist' # Null
    /\ currentPlaylist'.videos = currentPlaylist.videos
    /\ currentPlaylist'.currentIndex = Advanced(currentPlaylist)
    /\ playFetches' =
          [playFetches EXCEPT
              ![currentPlaylist.videos[Advanced(currentPlaylist) + 1].id] = @ + 1]

AdvanceStep ==
    currentPlaylist # Null /\ (NextClick \/ RetryTimerFires \/ AudioEnded)

\* C5: wraparound law.  For a playlist of n videos and any starting index, one
\* advance (playNextTrackInPlaylist, from the next button, the retry timer or
\* the Primary channel's `ended`) yields 0 from the last index and index + 1
\* otherwise, and after every n advances the index is back at its start.
C5_WraparoundLaw ==
    /\ [](currentPlaylist # Null =>
            /\ currentPlaylist.currentIndex =
                  (wrapStart + wrapCount) % Len(currentPlaylist.videos)
            /\ wrapCount = 0 => currentPlaylist.currentIndex = wrapStart)
    /\ [][AdvanceStep =>
            /\ currentPlaylist' # Null
            /\ currentPlaylist'.currentIndex = Advanced(currentPlaylist)
            /\ wrapCount' = (wrapCount + 1) % Len(currentPlaylist.videos)]_vars

\* The longest playlist, begun at index 2, has passed its end and is back at
\* its start after a whole round of advances since (one is under way there).
C5_Witness ==
    /\ currentPlaylist # Null
    /\ Len(currentPlaylist.videos) = MaxWrapLen
    /\ wrapStart = 2
    /\ wrapCount = 0
    /\ currentPlaylist.currentIndex = 2
    /\ playFetches[3] = 1

PlaylistRejected(playlist) ==
    LET data == PlaylistEndpoint(playlist)
    IN  ~data.ok \/ Len(data.videos) = 0

\* C6: a playlist response with no items (or a failed one) constructs no
\* PlaylistState: currentPlaylist is absent afterwards, the error is shown
\* and no resolve call is issued.
C6_EmptyPlaylistRejected ==
    [][\A playlist \in RawPlaylists :
          (PlaylistRejected(playlist) /\ PlaylistResponseFor(playlist)) =>
              /\ currentPlaylist' = Null
              /\ "error" \notin hidden'
              /\ "nextButton" \in hidden'
              /\ playFetches' = playFetches]_vars

\* The only selection was a playlist, its response is in, and nothing was
\* ever resolved or played.
C6_Witness ==
    /\ userActions = 1
    /\ lastSelected.type = "playlist"
    /\ playlistFetches = 0
    /\ currentPlaylist = Null
    /\ "error" \notin hidden
    /\ NoPlayFetches
    /\ ttsPlayer.src = Null

\* C7: when the Primary channel emits `ended` while a playlist is active, the
\* cursor advances by exactly one position with wraparound, a resolve call is
\* issued for the item now at currentIndex, and the reported position becomes
\* (currentIndex + 1 / total).
C7_AdvanceOnCompletion ==
    [][(currentPlaylist # Null /\ AudioEnded) =>
          /\ AdvancedAndResolving
          /\ playlistInfoText' =
                [pos |-> currentPlaylist'.currentIndex + 1,
                 total |-> Len(currentPlaylist.videos)]
          /\ "playlistInfo" \notin hidden']_vars

\* The two-item scenario: the first item played to its end, the second is
\* being resolved and (2/2) is reported; no next click, no playback error.
C7_Witness ==
    /\ userActions = 1
    /\ currentPlaylist # Null
    /\ Len(currentPlaylist.videos) = 2
    /\ currentPlaylist.currentIndex = 1
    /\ failStreak = 0
    /\ timers = 0
    /\ audioPlayer.src = AudioUrl(currentPlaylist.videos[1].id)
    /\ audioPlayer.st = "stopped"
    /\ playFetches[currentPlaylist.videos[2].id] = 1
    /\ playlistInfoText = [pos |-> 2, total |-> 2]

PlayResponseFailFor(videoId) == PlayResponse(videoId, [ok |-> FALSE])

\* C8: when resolve fails with no playlist active, the error is shown, no
\* PlaylistState exists, no staged track remains, the player container is
\* hidden and neither channel is touched.
C8_SingleResolveFailureFatal ==
    [][\A videoId \in VideoIds :
          (currentPlaylist = Null /\ PlayResponseFailFor(videoId)) =>
              /\ "error" \notin hidden'
              /\ "loading" \in hidden'
              /\ "player" \in hidden'
              /\ currentPlaylist' = Null
              /\ nextAudioInfo' = Null
              /\ ttsPlayer' = ttsPlayer
              /\ audioPlayer' = audioPlayer]_vars

\* A single selection whose resolve failed.
C8_Witness ==
    /\ userActions = 1
    /\ lastSelected.type = "video"
    /\ NoPlayFetches
    /\ "error" \notin hidden
    /\ "player" \in hidden
    /\ nextAudioInfo = Null
    /\ ttsPlayer.src = Null
    /\ audioPlayer.src = Null

\* C9: when resolve fails for the current item of an active playlist, the
\* item is skipped: the cursor advances and the next item is resolved, at once
\* or through the recovery timer.
C9_SkipAndAdvance ==
    [][\A videoId \in VideoIds :
          (currentPlaylist # Null /\ PlayResponseFailFor(videoId)) =>
              \/ timers' = timers + 1
              \/ /\ currentPlaylist' # Null
                 /\ currentPlaylist'.currentIndex = Advanced(currentPlaylist)
                 /\ \E next \in VideoIds : playFetches'[next] > playFetches[next]]_vars

AudioFails == AudioLoadFailed \/ AudioError

\* C10: when the Primary channel emits `error` while a playlist is active, one
\* retry timer is armed and nothing advances yet; when the timer fires on the
\* playlist, exactly one advance is made and the new current item is resolved.
C10_RecoveryOnPlaybackError ==
    [][/\ (currentPlaylist # Null /\ AudioFails) =>
              /\ timers' = timers + 1
              /\ currentPlaylist' = currentPlaylist
              /\ playFetches' = playFetches
       /\ (currentPlaylist # Null /\ RetryTimerFires) =>
              /\ timers' = timers - 1
              /\ AdvancedAndResolving]_vars

\* A two-item playlist whose first item failed on the Primary channel: the
\* timer has fired, the cursor is on the second item and it is being resolved.
C10_Witness ==
    /\ userActions = 1
    /\ currentPlaylist # Null
    /\ Len(currentPlaylist.videos) = 2
    /\ currentPlaylist.currentIndex = 1
    /\ failStreak = 1
    /\ timers = 0
    /\ audioPlayer.src = AudioUrl(currentPlaylist.videos[1].id)
    /\ playFetches[currentPlaylist.videos[2].id] = 1

\* C11: when the Primary channel emits `error` and no playlist is active, the
\* error is shown, the player container is hidden, no retry timer is armed
\* and no resolve, announcement or playback is started.
C11_SinglePlaybackErrorFatal ==
    [][(currentPlaylist = Null /\ AudioFails) =>
          /\ "error" \notin hidden'
          /\ "player" \in hidden'
          /\ timers' = timers
          /\ playFetches' = playFetches
          /\ playlistFetches' = playlistFetches
          /\ currentPlaylist' = Null
          /\ nextAudioInfo' = nextAudioInfo
          /\ ttsPlayer' = ttsPlayer
          /\ audioPlayer' = [audioPlayer EXCEPT !.st = "stopped"]]_vars

\* A single selection whose track was handed to the Primary channel and
\* stopped without reaching its end, the player container hidden (a rejected
\* play() would show it): the channel emitted `error`.
C11_Witness ==
    /\ userActions = 1
    /\ lastSelected.type = "video"
    /\ audioPlayer.src = AudioUrl(lastSelected.id)
    /\ audioPlayer.st = "stopped"
    /\ currentTrackText # Text("Finished")
    /\ "error" \notin hidden
    /\ "player" \in hidden
    /\ timers = 0
    /\ NoPlayFetches

\* C12: when the Primary channel emits `ended` and no playlist is active, the
\* session is Finished and no resolve call, announcement or primary playback
\* is started.
C12_SingleItemCompletion ==
    [][(currentPlaylist = Null /\ AudioEnded) =>
          /\ currentTrackText' = Text("Finished")
          /\ playFetches' = playFetches
          /\ playlistFetches' = playlistFetches
          /\ timers' = timers
          /\ currentPlaylist' = Null
          /\ nextAudioInfo' = nextAudioInfo
          /\ ttsPlayer' = ttsPlayer
          /\ audioPlayer' = [audioPlayer EXCEPT !.st = "stopped"]]_vars

\* A single selection played to its end.
C12_Witness ==
    /\ userActions = 1
    /\ lastSelected.type = "video"
    /\ currentTrackText = Text("Finished")
    /\ audioPlayer.src = AudioUrl(lastSelected.id)
    /\ audioPlayer.st = "stopped"
    /\ ttsPlayer.st = "stopped"
    /\ NoPlayFetches

\* C13: in every reachable state at most one of ttsPlayer and audioPlayer is
\* playing.
C13_ChannelsNeverOverlap ==
    ~(ttsPlayer.st = "playing" /\ audioPlayer.st = "playing")

\* The announcement text playTTS builds for the track whose audio URL is url.
AnnouncementOf(url) ==
    { Announcement(StagedTitle([title |-> VideoDetailsTitle(id)], SearchTitle(id))) :
        id \in { i \in VideoIds : AudioUrl(i) = url } }

\* A step in which the Primary channel is loaded and started.
PrimaryStarts ==
    /\ audioPlayer'.st = "starting"
    /\ audioPlayer'.src # Null
    /\ audioPlayer' # audioPlayer

\* C14: the Primary channel is loaded and started with a track only in a step
\* that is the terminal signal (ended, error or play rejection) of the
\* announcement of that same track: before the step ttsPlayer is announcing
\* that track, after it ttsPlayer has stopped.
C14_AnnouncementBeforePrimary ==
    [][PrimaryStarts =>
          /\ ttsPlayer.st # "stopped"
          /\ ttsPlayer.src \in AnnouncementOf(audioPlayer'.src)
          /\ ttsPlayer'.st = "stopped"]_vars

\* C15: a next request honoured while a playlist is active leaves both
\* channels silent.
C15_ManualNextSilencesFirst ==
    [][(currentPlaylist # Null /\ NextClick) =>
          /\ audioPlayer'.st = "stopped"
          /\ ttsPlayer'.st = "stopped"]_vars

\* C16: when no playlist is active, a next request or a retry timer firing
\* leaves currentPlaylist, the staged track, both channels and the outstanding
\* resolve calls unchanged.
C16_NextWithoutPlaylistNoOp ==
    [][(currentPlaylist = Null /\ (NextClick \/ RetryTimerFires)) =>
          UNCHANGED <<currentPlaylist, nextAudioInfo, audioPlayer, ttsPlayer,
                      playFetches, playlistFetches>>]_vars

\* The first track of a two-item playlist failed on the Primary channel and
\* armed the retry timer; a video was selected before the timer fired; the
\* timer has fired since, and the playlist position, the announcement source
\* and the outstanding calls are those the selection left.
C16_Witness ==
    /\ userActions = 2
    /\ lastSelected.type = "video"
    /\ currentPlaylist = Null
    /\ failStreak = 1
    /\ timers = 0
    /\ playlistInfoText = [pos |-> 1, total |-> 2]
    /\ ttsPlayer = [src |-> Announcement(RawVideo(1, TRUE).title), st |-> "stopped"]
    /\ audioPlayer = [src |-> Null, st |-> "stopped"]
    /\ nextAudioInfo = Null
    /\ playlistFetches = 0
    /\ playFetches = [id \in VideoIds |-> IF id = lastSelected.id THEN 1 ELSE 0]
    /\ hidden = {"player", "error", "playlistInfo", "nextButton"}

\* The track an ok answer for videoId stages (script.js:220-224); the title is
\* the answer's, or the caller's when the answer has none.
StagedFor(videoId) ==
    [audioUrl |-> AudioUrl(videoId),
     title |-> StagedTitle([title |-> VideoDetailsTitle(videoId)],
                           SearchTitle(videoId))]

PlayResponseOkFor(videoId) ==
    \E data \in { d \in PlayResponses(videoId) : d.ok } : PlayResponse(videoId, data)

\* An announcement terminal signal: ended, error, or play rejection.
TtsTerminal == TtsEnded \/ TtsFails

\* C17: the staged track is a single slot consumed once.  An ok answer
\* replaces whatever was staged by its own track (which is either still staged
\* after the step or already handed to the Primary channel, the slot empty);
\* an announcement terminal signal hands the staged track, if any, to the
\* Primary channel and empties the slot; and the Primary channel is loaded
\* and started in such steps only, the slot being empty afterwards, so no
\* track is handed over twice and an overwritten track is never handed over.
C17_StagedTrackConsumeOnce ==
    [][/\ \A videoId \in VideoIds :
            PlayResponseOkFor(videoId) =>
                \/ nextAudioInfo' = StagedFor(videoId)
                \/ /\ nextAudioInfo' = Null
                   /\ audioPlayer' = [src |-> AudioUrl(videoId), st |-> "starting"]
       /\ TtsTerminal =>
            /\ nextAudioInfo' = Null
            /\ IF nextAudioInfo # Null
               THEN audioPlayer' = [src |-> nextAudioInfo.audioUrl, st |-> "starting"]
               ELSE audioPlayer' = audioPlayer
       /\ PrimaryStarts => nextAudioInfo' = Null /\ (TtsTerminal \/ PlayResponseOk)]_vars

\* Two videos were selected and both answers arrived: the first answer's
\* track was overwritten (or handed over) and the latest one is on the
\* Primary channel, the slot empty.
C17_Witness ==
    /\ userActions = 2
    /\ lastSelected.type = "video"
    /\ NoPlayFetches
    /\ \E id \in VideoIds :
          /\ audioPlayer = [src |-> AudioUrl(id), st |-> "starting"]
          /\ ttsPlayer.src \in AnnouncementOf(AudioUrl(id))
          /\ ttsPlayer.st = "stopped"
    /\ nextAudioInfo = Null

\* C18: an announcement terminal signal that arrives while nothing is staged
\* leaves the Primary channel's source and playing state and the playlist
\* state unchanged and surfaces no error.
C18_EmptyStageCheck ==
    [][(nextAudioInfo = Null /\ TtsTerminal) =>
          /\ audioPlayer' = audioPlayer
          /\ currentPlaylist' = currentPlaylist
          /\ ("error" \in hidden => "error" \in hidden')]_vars

\* C19: in every reachable state at most one /api/play call is in flight.
C19_AtMostOneResolve ==
    \A i, j \in VideoIds :
        /\ playFetches[i] <= 1
        /\ (playFetches[i] > 0 /\ playFetches[j] > 0) => i = j

\* C20: a channel is loaded and played only when its previous playback
\* attempt is over: playTTS (run by every ok answer) finds ttsPlayer stopped,
\* and the Primary channel is loaded and started only when it is stopped or
\* has been paused in the same step by playTTS.
C20_OnePlayPerLoad ==
    [][/\ PlayResponseOk => ttsPlayer.st = "stopped"
       /\ PrimaryStarts => (audioPlayer.st = "stopped" \/ PlayResponseOk)]_vars

\* C21: after a single-item selection currentPlaylist stays absent until a
\* later playlist selection succeeds: while the latest selection is a video,
\* no playlist state exists, whatever answers arrive.
C21_SelectionReplacesPlaylist ==
    lastSelected.type = "video" => currentPlaylist = Null

\* The audio URL the item at the playlist cursor resolves to.
CurrentItemUrl ==
    AudioUrl(currentPlaylist.videos[currentPlaylist.currentIndex + 1].id)

\* C22: whenever a playlist is active with its cursor on an item, a staged
\* track is the resolution of that item, and so is a track loaded into the
\* Primary channel while that channel is starting or playing: the reported
\* (position, total) pair refers to the track staged or playing.
C22_CoherentNowPlaying ==
    (currentPlaylist # Null /\ HasNextVideo(currentPlaylist)) =>
        /\ playlistInfoText = [pos |-> currentPlaylist.currentIndex + 1,
                               total |-> Len(currentPlaylist.videos)]
        /\ nextAudioInfo # Null => nextAudioInfo.audioUrl = CurrentItemUrl
        /\ (audioPlayer.st # "stopped" /\ audioPlayer.src # Null) =>
              audioPlayer.src = CurrentItemUrl

\* A fatal error: a resolve failure or a Primary error with no playlist
\* active, or a playlist answer that is rejected.
FatalError ==
    \/ currentPlaylist = Null /\ PlayResponseFail
    \/ currentPlaylist = Null /\ AudioFails
    \/ \E playlist \in RawPlaylists :
          PlaylistRejected(playlist) /\ PlaylistResponseFor(playlist)

\* C23: after every fatal error (single-item resolve failure, single-item
\* Primary error, playlist load failure) the error message is visible and the
\* player container is hidden.
C23_FatalErrorsHideNowPlaying ==
    [][FatalError => ("error" \notin hidden' /\ "player" \in hidden')]_vars

\* The audio URL of the item before the playlist cursor, cyclically.
PreviousItemUrl ==
    LET n == Len(currentPlaylist.videos)
    IN  AudioUrl(currentPlaylist.videos[((currentPlaylist.currentIndex + n - 1) % n) + 1].id)

\* C24: with a playlist active, every resolve and playback succeeding, every
\* channel reaching `ended` and no user action, the track handed to the
\* Primary channel is always the item at the cursor and follows the item
\* before it cyclically, and every item of the playlist is playing on the
\* Primary channel infinitely often.
C24_PlaylistLoopsInOrder ==
    /\ [][PrimaryStarts =>
             /\ currentPlaylist' = currentPlaylist
             /\ audioPlayer'.src = CurrentItemUrl
             /\ audioPlayer.src # Null => audioPlayer.src = PreviousItemUrl]_vars
    /\ \A k \in VideoIds :
          []<>(/\ currentPlaylist # Null
               /\ k \in DOMAIN currentPlaylist.videos =>
                     audioPlayer = [src |-> AudioUrl(currentPlaylist.videos[k].id),
                                    st |-> "playing"])

\* A playlist of at least two videos has been played through once: the cursor
\* is back where it started, the item there is being resolved again and the
\* Primary channel still holds the item before it.
C24_Witness ==
    /\ currentPlaylist # Null
    /\ Len(currentPlaylist.videos) >= 2
    /\ currentPlaylist.currentIndex = wrapStart
    /\ wrapCount = 0
    /\ playFetches[currentPlaylist.videos[wrapStart + 1].id] = 1
    /\ audioPlayer = [src |-> PreviousItemUrl, st |-> "stopped"]

\* C25: a recovery timer that was armed before the latest selection changes
\* neither the playlist state nor the outstanding resolve calls when it fires.
C25_StaleTimerHarmless ==
    [][(RetryTimerFires /\ staleTimers > 0) =>
          UNCHANGED <<currentPlaylist, playFetches>>]_vars

\* C26: in single-item mode, while the Primary channel is starting or playing
\* a track, the player container is visible.
C26_PlayerVisibleWhilePrimaryActive ==
    (/\ currentPlaylist = Null
     /\ lastSelected.type = "video"
     /\ audioPlayer.st # "stopped"
     /\ audioPlayer.src # Null) => "player" \notin hidden

\* C27: in every reachable state at most one of the loading indicator and
\* the error message is shown.
C27_LoadingErrorExclusive ==
    "loading" \in hidden \/ "error" \in hidden

\* A search failed while a resolve call was outstanding: the error message
\* replaced the loading indicator the selection had shown.
C27_Witness ==
    /\ results.message = Text("Search failed.")
    /\ ~NoPlayFetches
    /\ "error" \notin hidden
    /\ "loading" \in hidden

\* C28: with results rendered by displayResults every result is tagged
\* 'video', every selection takes the single-item path, fetchPlaylist is never
\* invoked, no playlist exists, the next button stays hidden and disabled, and
\* neither a next click, a playlist answer nor a retry timer can occur.
C28_PlaylistModeUnreachable ==
    /\ \A i \in DOMAIN results.items : results.items[i].type = "video"
    /\ lastSelected.type \in {"none", "video"}
    /\ playlistFetches = 0
    /\ currentPlaylist = Null
    /\ "nextButton" \in hidden
    /\ nextButtonDisabled
    /\ timers = 0
    /\ ~ENABLED (NextClick \/ PlaylistResponse \/ RetryTimerFires)

\* Two rendered results were selected in turn and the Primary channel plays.
C28_Witness ==
    /\ Len(results.items) >= 1
    /\ userActions = 2
    /\ lastSelected.type = "video"
    /\ audioPlayer.st = "playing"
    /\ audioPlayer.src # Null

====
